---- MODULE Spec2Model ----
(***************************************************************************)
(* Model of the Blender light-probe add-on (src/__init__.py):              *)
(*   - BakeCubemapOperator: execute / modal / cancel and the generator fn  *)
(*     that renders one frame of a cubemap per timer tick;                 *)
(*   - render_cubemap and the binary cubemap stream it writes;             *)
(*   - the frame selection loop of BakeCubemapOperator.execute;            *)
(*   - the neighbor search of get_all_lightprobe_data.                     *)
(***************************************************************************)
EXTENDS Integers, Sequences, FiniteSets, TLC

\* ------------------------------------------------------------------------
\* Bounds of the model
\* ------------------------------------------------------------------------
\* frame selection (SpecFrames): start_frame and end_frame range
MinFrame == 0
MaxStart == 3
MaxEnd == 10
\* capture job (Spec): the scene's frame range is 1..JobMaxFrame
JobMaxFrame == 3
\* number of distinct scene contents, each giving other images
ImageVariants == 2
\* neighbor search (SpecNeighbors): probe count and simplex count
NumPoints == 5
MaxSimplices == 3
\* texture sampler (SpecSampler): image sizes are 1, 2, ..., 2^SizeBits and
\* UV coordinates are multiples of 1 / (2 * 2^UvBits) of a pixel
SizeBits == 2
UvBits == 1
\* radiance projector (SpecBake): faces of the probe mesh and sampled
\* directions (theta_res * phi_res)
NumFaces == 2
NumSamples == 2

\* Frame rates.  The quotients native/target are 1, dyadic rationals (2,
\* 1/2, 1/4, ...) and rationals no float holds exactly (24/9, 30/25, ...).
NativeRates == {12, 24, 30, 36}
TargetRates == {9, 12, 24, 25, 48}
JobNativeRates == {24}
JobTargetRates == {12, 24, 48}

\* ------------------------------------------------------------------------
\* Scene objects
\* ------------------------------------------------------------------------
Probe == "probe"
Objects == {"probe", "lamp"}
NoObject == "None"

\* Mutant: the lookup table lacks its last entry
CubemapDirectionsShort == <<"posx", "negx", "posy", "negy", "posz">>

\* CUBEMAP_DIRECTION_LOOKUP.keys(), an OrderedDict: iteration order is fixed
CUBEMAP_DIRECTION_LOOKUP == <<"posx", "negx", "posy", "negy", "posz", "negz">>
NumDirections == Len(CUBEMAP_DIRECTION_LOOKUP)

\* ------------------------------------------------------------------------
\* struct.pack
\* ------------------------------------------------------------------------
RECURSIVE Pow2(_)
Pow2(e) == IF e = 0 THEN 1 ELSE 2 * Pow2(e - 1)

RECURSIVE Log2Floor(_)
Log2Floor(v) == IF v < 2 THEN 0 ELSE 1 + Log2Floor(v \div 2)

\* struct.pack("<I", n): four bytes, least significant first
LE32(n) == << n % 256, (n \div 256) % 256, (n \div 65536) % 256,
              (n \div 16777216) % 256 >>

\* IEEE-754 binary32 bit pattern of a non-negative integer below 2^24
F32Bits(v) ==
    IF v = 0 THEN 0
    ELSE LET e == Log2Floor(v)
         IN (e + 127) * Pow2(23) + (v - Pow2(e)) * Pow2(23 - e)

\* struct.pack("<ffI", fps, gamma, n) with gamma = 1.0
Header(fps, n) == LE32(F32Bits(fps)) \o LE32(F32Bits(1)) \o LE32(n)
HeaderLen == 12

\* ------------------------------------------------------------------------
\* Frame selection of BakeCubemapOperator.execute
\* ------------------------------------------------------------------------
\* cur_frame and frame_advance are Python floats (IEEE-754 binary64).  A
\* non-negative float below 4096 that is a multiple of 2^-60 is held exactly
\* as three limbs of 24 bits: its value is
\*     (h * 2^48 + m * 2^24 + l) * 2^-60.
\* Every float from 2^-8 up to 4096 has this form.
Limb == Pow2(24)
IntUnit == Pow2(12)

\* float(n) for an integer 0 <= n < 4096
F64FromInt(n) == [h |-> n * IntUnit, m |-> 0, l |-> 0]

\* int(x) for x >= 0: truncation
F64Int(x) == x.h \div IntUnit

\* Position of the leading one bit of x > 0, counted in units of 2^-60
F64TopBit(x) ==
    IF x.h > 0 THEN 48 + Log2Floor(x.h)
    ELSE IF x.m > 0 THEN 24 + Log2Floor(x.m)
    ELSE Log2Floor(x.l)

\* Carries of the limbs into the next higher limb
F64Carry(x) ==
    LET l == x.l % Limb
        m1 == x.m + (x.l \div Limb)
        m == m1 % Limb
        h == x.h + (m1 \div Limb)
    IN [h |-> h, m |-> m, l |-> l]

\* Rounding to 53 significant bits, to nearest, ties to even; sticky tells
\* that the exact value lies above x by less than 2^-60.
F64Round(x, sticky) ==
    LET p == F64TopBit(x)
    IN IF p < 53 THEN x
       ELSE LET ulp == Pow2(p - 52)
                half == ulp \div 2
                low == x.l % ulp
                odd == (x.l \div ulp) % 2 = 1
                up == \/ low > half
                      \/ low = half /\ (sticky \/ odd)
            IN F64Carry([x EXCEPT !.l = x.l - low
                                         + (IF up THEN ulp ELSE 0)])

\* a + b of two floats
F64Add(a, b) ==
    F64Round(F64Carry([h |-> a.h + b.h, m |-> a.m + b.m, l |-> a.l + b.l]),
             FALSE)

\* n / d of Python for integers n > 0 and d > 0 with 2^-7 <= n / d < 4096:
\* long division to 60 fractional bits, twelve bits at a time, then
\* rounding
F64Div(n, d) ==
    LET r0 == n % d
        d1 == (r0 * IntUnit) \div d
        r1 == (r0 * IntUnit) % d
        d2 == (r1 * IntUnit) \div d
        r2 == (r1 * IntUnit) % d
        d3 == (r2 * IntUnit) \div d
        r3 == (r2 * IntUnit) % d
        d4 == (r3 * IntUnit) \div d
        r4 == (r3 * IntUnit) % d
        d5 == (r4 * IntUnit) \div d
        r5 == (r4 * IntUnit) % d
    IN F64Round([h |-> (n \div d) * IntUnit + d1,
                 m |-> d2 * IntUnit + d3,
                 l |-> d4 * IntUnit + d5], r5 # 0)

\* Mutant: the loop condition is cur_frame <= end
RECURSIVE FrameLoopInclusive(_, _, _, _, _)
FrameLoopInclusive(cur_frame, end, frame_advance, last, acc) ==
    IF F64Int(cur_frame) < end \/ cur_frame = F64FromInt(end)
    THEN LET next == F64Add(cur_frame, frame_advance)
             f == F64Int(next)
         IN IF f \in last
            THEN FrameLoopInclusive(next, end, frame_advance, last, acc)
            ELSE FrameLoopInclusive(next, end, frame_advance, {f},
                                    Append(acc, f))
    ELSE acc

\* The while loop.  cur_frame >= 0 and end is an integer, so
\* cur_frame < end exactly when int(cur_frame) < end; last is {} for
\* last_frame = None and {f} for last_frame = f.
RECURSIVE FrameLoop(_, _, _, _, _)
FrameLoop(cur_frame, end, frame_advance, last, acc) ==
    IF F64Int(cur_frame) < end
    THEN LET next == F64Add(cur_frame, frame_advance)
             f == F64Int(next)
         IN IF f \in last
            THEN FrameLoop(next, end, frame_advance, last, acc)
            ELSE FrameLoop(next, end, frame_advance, {f}, Append(acc, f))
    ELSE acc

\* frame_advance = fps / target_fps; all_frames = [start] and the loop
AllFrames(start, end, fps, target) ==
    FrameLoop(F64FromInt(start), end, F64Div(fps, target), {}, <<start>>)

\* ------------------------------------------------------------------------
\* The renderer and the temporary image files
\* ------------------------------------------------------------------------
\* The bytes the renderer writes for one (frame, direction); the renderer is
\* opaque, its image is decided by the scene content v, the frame and the
\* direction.  Lengths 0, 1 and 2 all occur.
Image(frame, d, v) ==
    [i \in 1..((d + v) % 3) |-> (16 * frame + 2 * d + i + v) % 256]

\* The faults of one call of render_cubemap: none, or one at the first or
\* at the last direction
NoFault == [kind |-> "none", at |-> 0]
Faults == {NoFault} \cup
          [kind : {"render", "read", "write"}, at : {1, NumDirections}]

\* Mutant: the image bytes are not written after their length
BlockNoPayload(face) == LE32(Len(face))

\* h.write(struct.pack("<I", len(face))); h.write(face)
Block(face) == LE32(Len(face)) \o face

\* Mutant: the files are concatenated in reverse direction order
RECURSIVE WriteFacesReversed(_, _, _)
WriteFacesReversed(files, d, n) ==
    IF d > n THEN <<>>
    ELSE WriteFacesReversed(files, d + 1, n) \o Block(files[d])

\* the loop "for filepath in filepaths" over the first n files
RECURSIVE WriteFaces(_, _, _)
WriteFaces(files, d, n) ==
    IF d > n THEN <<>> ELSE Block(files[d]) \o WriteFaces(files, d + 1, n)

\* History of one call: the renderer invocations (with the image produced,
\* or "render_failed") and the blocks completely appended to h
RenderEvents(frame, files, started, rendered) ==
    [d \in 1..started |->
        IF d <= rendered THEN <<"render", frame, d, files[d]>>
        ELSE <<"render_failed", frame, d, <<>>>>]
AppendEvents(frame, files, n) ==
    [d \in 1..n |-> <<"append", frame, d, files[d]>>]

\* Mutant: each image is appended to h right after it was rendered
render_cubemapInterleaved(files0, frame, v, fault) ==
    LET started == IF fault.kind = "render" THEN fault.at ELSE NumDirections
        rendered == IF fault.kind = "render" THEN fault.at - 1
                    ELSE NumDirections
        files == [d \in 1..NumDirections |->
                     IF d <= rendered THEN Image(frame, d, v) ELSE files0[d]]
        blocks == CASE fault.kind = "none" -> NumDirections
                    [] OTHER -> fault.at - 1
        torn == IF fault.kind = "write"
                THEN LE32(Len(files[fault.at])) ELSE <<>>
    IN [raised  |-> fault.kind # "none",
        files   |-> files,
        bytes   |-> WriteFaces(files, 1, blocks) \o torn,
        events  |-> [k \in 1..(started + blocks) |->
                        IF k <= 2 * blocks
                        THEN IF k % 2 = 1
                             THEN <<"render", frame, (k + 1) \div 2,
                                    files[(k + 1) \div 2]>>
                             ELSE <<"append", frame, k \div 2,
                                    files[k \div 2]>>
                        ELSE IF fault.kind = "render"
                             THEN <<"render_failed", frame, k - blocks, <<>>>>
                             ELSE <<"render", frame, k - blocks,
                                    files[k - blocks]>>],
        updates |-> started]

\* render_cubemap(ctx, h, ob, size, progress_update) for one frame.
\* All six directions are rendered to temporary files first, then the six
\* files are read back and appended to h.  A fault makes the renderer raise
\* at direction at ("render"), or the open of the file of direction at
\* raise ("read"), or the write of its image bytes raise after its length
\* prefix was written ("write").
render_cubemap(files0, frame, v, fault) ==
    LET started == IF fault.kind = "render" THEN fault.at ELSE NumDirections
        rendered == IF fault.kind = "render" THEN fault.at - 1
                    ELSE NumDirections
        files == [d \in 1..NumDirections |->
                     IF d <= rendered THEN Image(frame, d, v) ELSE files0[d]]
        blocks == CASE fault.kind = "none" -> NumDirections
                    [] fault.kind = "render" -> 0
                    [] OTHER -> fault.at - 1
        torn == IF fault.kind = "write"
                THEN LE32(Len(files[fault.at])) ELSE <<>>
    IN [raised  |-> fault.kind # "none",
        files   |-> files,
        bytes   |-> WriteFaces(files, 1, blocks) \o torn,
        events  |-> RenderEvents(frame, files, started, rendered)
                       \o AppendEvents(frame, files, blocks),
        updates |-> started]

\* ------------------------------------------------------------------------
\* Neighbor search of get_all_lightprobe_data
\* ------------------------------------------------------------------------
\* None in the neighbors array
Null == -1

SetOf(seq) == {seq[k] : k \in 1..Len(seq)}

\* to_match: list(simp) with the entry at position i popped, as a set
ToMatch(simp, i) == {simp[k] : k \in (1..Len(simp)) \ {i}}

\* Mutant: the search does not skip the simplex it searches for
FindNeighborNoSkip(simps, s, i) ==
    LET matches == {t \in 1..Len(simps) :
                       /\ ToMatch(simps[s], i) \subseteq SetOf(simps[t])
                       /\ ToMatch(simps[s], i) # SetOf(simps[t])}
    IN IF matches = {} THEN Null
       ELSE (CHOOSE t \in matches : \A u \in matches : t <= u) - 1

\* Mutant: the search does not stop at its first match
FindNeighborLast(simps, s, i) ==
    LET matches == {t \in 1..Len(simps) :
                       /\ t # s
                       /\ ToMatch(simps[s], i) \subseteq SetOf(simps[t])
                       /\ ToMatch(simps[s], i) # SetOf(simps[t])}
    IN IF matches = {} THEN Null
       ELSE (CHOOSE t \in matches : \A u \in matches : t >= u) - 1

\* The search over all simplices for the face opposite position i of
\* simplex s: the first simplex other than s whose vertex set is a proper
\* superset of to_match.  s is a position of the list (from 1); the result
\* is the index the source records (from 0), or Null.
FindNeighbor(simps, s, i) ==
    LET matches == {t \in 1..Len(simps) :
                       /\ t # s
                       /\ ToMatch(simps[s], i) \subseteq SetOf(simps[t])
                       /\ ToMatch(simps[s], i) # SetOf(simps[t])}
    IN IF matches = {} THEN Null
       ELSE (CHOOSE t \in matches : \A u \in matches : t <= u) - 1

Neighbors(simps) ==
    [s \in 1..Len(simps) |->
        [i \in 1..Len(simps[s]) |-> FindNeighbor(simps, s, i)]]

\* The simplices a tetrahedralization of NumPoints points can list: four
\* distinct point indices, in ascending order or rotated by one position
Tetrahedra ==
    {t \in [1..4 -> 0..(NumPoints - 1)] :
        \/ t[1] < t[2] /\ t[2] < t[3] /\ t[3] < t[4]
        \/ t[2] < t[3] /\ t[3] < t[4] /\ t[4] < t[1]}

\* Point indices are labels: the first simplex of a list is taken to be
\* the points 0..3, the simplices after it are arbitrary
SimplexLists ==
    {<<t>> \o rest :
        t \in {u \in Tetrahedra : \A k \in 1..4 : u[k] <= 3},
        rest \in UNION {[1..n -> Tetrahedra] : n \in 0..(MaxSimplices - 1)}}

\* ------------------------------------------------------------------------
\* Render visibility and selection helpers
\* ------------------------------------------------------------------------
\* hide_object(ob): sets ob.hide_render and returns the closure restore,
\* represented by the value it will write back
hide_object(hr, ob) ==
    [hr |-> [hr EXCEPT ![ob] = TRUE], old_value |-> hr[ob]]

\* hide_all(scene): hide_object on every scene object; restores maps each
\* object to the value its restore closure writes back
hide_all(hr) ==
    [hr |-> [o \in Objects |-> hide_object(hr, o).hr[o]],
     restores |-> [o \in Objects |-> hide_object(hr, o).old_value]]

\* the loop "for restore in restores.values(): restore()"
RunRestores(hr, restores) ==
    [o \in Objects |-> IF o \in DOMAIN restores THEN restores[o] ELSE hr[o]]

\* no_interfere_ctx, the finally clause: the selection is cleared, the
\* objects selected at entry are selected again, and the object active at
\* entry is made active again
no_interfere_ctx(old_selected, old_active, act) ==
    [select |-> [o \in Objects |-> o \in old_selected],
     active |-> IF old_active # NoObject THEN old_active ELSE act]

\* ------------------------------------------------------------------------
\* State
\* ------------------------------------------------------------------------
VARIABLES
    \* the scene
    hide_render,    \* ob.hide_render of every scene object
    select,         \* ob.select of every scene object
    active,         \* scene.objects.active
    frame_current,  \* scene.frame_current
    frame_start,    \* scene.frame_start
    frame_end,      \* scene.frame_end
    fps,            \* scene.render.fps
    scene_content,  \* what there is to render, which decides the images
    \* probe.cubemap (CubemapProperties)
    sky_only, single_frame, whole_range, start_frame, end_frame, target_fps,
    \* the operator instance and what execute creates
    all_frames,     \* the selected frame list
    next_chunk,     \* self.next_chunk, the generator fn()
    awesome,        \* number of values the progress generator has yielded
    timer,          \* TRUE while self._timer is registered with the host
    ret,            \* what the operator last returned to the host
    \* the file system
    out_exists,     \* the cubemap file exists
    out_open,       \* out_handle is open
    out_bytes,      \* the bytes written to out_handle
    tmpfiles,       \* the six temporary image files, by direction
    \* history
    pre,            \* the scene state when execute was called
    log,            \* renderer invocations and completed block appends
    ticks,          \* TIMER events handled by modal
    failure,        \* the fault that made a step raise
    \* neighbor search
    simplices,      \* tris.vertices
    neighbors,      \* all_data["neighbors"]
    \* texture sampler
    image,          \* the lightmap: width, height, channels, pixels
    uv,             \* the UV coordinate, in units of 1/UvUnit of a pixel
    sampled,        \* what bilinear_interpolate did
    \* radiance projector
    accepts,        \* per direction: the faces accepting the ray and the
                    \* faces accepting the offset ray
    theta_res,      \* scene.lightprobe.theta_res
    phi_res,        \* scene.lightprobe.phi_res
    lightprobe_coeffs,  \* probe["lightprobe_coeffs"]
    bake_ret,       \* what BakeOperator.execute returned
    scans           \* the scans of the mesh faces made by the bake

sceneVars == <<hide_render, select, active, frame_current, frame_start,
               frame_end, fps, scene_content>>
cubeVars == <<sky_only, single_frame, whole_range, start_frame, end_frame,
              target_fps>>
opVars == <<all_frames, next_chunk, awesome, timer, ret>>
fileVars == <<out_exists, out_open, out_bytes, tmpfiles>>
histVars == <<pre, log, ticks, failure>>
jobVars == <<sceneVars, cubeVars, opVars, fileVars, histVars>>
nbrVars == <<simplices, neighbors>>
smpVars == <<image, uv, sampled>>
bakeVars == <<accepts, theta_res, phi_res, lightprobe_coeffs, bake_ret,
              scans>>
vars == <<jobVars, nbrVars, smpVars, bakeVars>>

NoGenerator == [pc |-> "none", i |-> 0, restores |-> <<>>,
                old_selected |-> {}, old_active |-> NoObject]

\* What holds of every initial state: no operator has run yet
InitIdle ==
    /\ all_frames = <<>>
    /\ next_chunk = NoGenerator
    /\ awesome = 0
    /\ timer = FALSE
    /\ ret = "NONE"
    /\ out_exists = FALSE
    /\ out_open = FALSE
    /\ out_bytes = <<>>
    /\ tmpfiles = [d \in 1..NumDirections |-> <<>>]
    /\ pre = [hide_render |-> hide_render, select |-> select,
              active |-> active]
    /\ log = <<>>
    /\ ticks = 0
    /\ failure = NoFault

InitNoNeighbors ==
    /\ simplices = <<>>
    /\ neighbors = <<>>

NoSample == [done |-> FALSE]
InitNoSampler ==
    /\ image = [width |-> 1, height |-> 1, channels |-> 4,
                pixels |-> <<1, 2, 3, 4>>]
    /\ uv = <<0, 0>>
    /\ sampled = NoSample

InitNoBake ==
    /\ accepts = <<>>
    /\ theta_res = 1
    /\ phi_res = 1
    /\ lightprobe_coeffs = [kind |-> "unset"]
    /\ bake_ret = "NONE"
    /\ scans = <<>>

\* Initial states of the capture job: the probe is the active object
\* (poll reads context.object) and is selected, the scene's frame
\* range is 1..JobMaxFrame, and at most one of single_frame and whole_range
\* is set (the panel disables each when the other is set)
Init ==
    /\ hide_render \in [Objects -> BOOLEAN]
    /\ select \in {f \in [Objects -> BOOLEAN] : f[Probe]}
    /\ active = Probe
    /\ frame_start = 1
    /\ frame_end = JobMaxFrame
    /\ frame_current \in {2}
    /\ fps \in JobNativeRates
    /\ scene_content \in 0..(ImageVariants - 1)
    /\ sky_only \in BOOLEAN
    /\ single_frame \in BOOLEAN
    /\ whole_range \in BOOLEAN
    /\ ~(single_frame /\ whole_range)
    /\ start_frame \in 1..2
    /\ end_frame \in {2, JobMaxFrame}
    /\ target_fps \in JobTargetRates
    /\ InitIdle
    /\ InitNoNeighbors
    /\ InitNoSampler
    /\ InitNoBake

\* Initial states for the frame selection: every start and end frame of
\* the bounds and every pair of rates
InitFrames ==
    /\ hide_render = [o \in Objects |-> FALSE]
    /\ select = [o \in Objects |-> o = Probe]
    /\ active = Probe
    /\ frame_start = MinFrame
    /\ frame_end = MaxEnd
    /\ frame_current = MinFrame
    /\ fps \in NativeRates
    /\ scene_content = 0
    /\ sky_only = FALSE
    /\ single_frame = FALSE
    /\ whole_range = FALSE
    /\ start_frame \in MinFrame..MaxStart
    /\ end_frame \in MinFrame..MaxEnd
    /\ target_fps \in TargetRates
    /\ InitIdle
    /\ InitNoNeighbors
    /\ InitNoSampler
    /\ InitNoBake

\* ------------------------------------------------------------------------
\* BakeCubemapOperator.execute
\* ------------------------------------------------------------------------
\* the start frame chosen by the if / elif / else on the cubemap's mode
StartOf == IF single_frame THEN frame_current
           ELSE IF whole_range THEN frame_start ELSE start_frame
EndOf == IF single_frame THEN frame_current
         ELSE IF whole_range THEN frame_end ELSE end_frame

Execute ==
    /\ ret = "NONE"
    /\ all_frames' = AllFrames(StartOf, EndOf, fps, target_fps)
    /\ out_exists' = TRUE
    /\ out_open' = TRUE
    /\ out_bytes' = Header(fps, Len(all_frames'))
    /\ next_chunk' = [NoGenerator EXCEPT !.pc = "created"]
    /\ awesome' = 0
    /\ timer' = TRUE
    /\ ret' = "RUNNING_MODAL"
    /\ pre' = [hide_render |-> hide_render, select |-> select,
               active |-> active]
    /\ UNCHANGED <<sceneVars, cubeVars, tmpfiles, log, ticks, failure,
                   nbrVars, smpVars,
                   bakeVars>>

\* ------------------------------------------------------------------------
\* The generator fn() of execute
\* ------------------------------------------------------------------------
\* From the start of fn() to the try: no_interfere_ctx is entered, the probe
\* is hidden, with sky_only every object is hidden by hide_all (which
\* replaces the restores dict), and the probe's restore is run at once.
EnterFn(hr, sel, act) ==
    LET own == hide_object(hr, Probe)
        all == hide_all(own.hr)
        restores == IF sky_only THEN all.restores
                    ELSE [o \in {Probe} |-> own.old_value]
        hidden == IF sky_only THEN all.hr ELSE own.hr
    IN [hr |-> [hidden EXCEPT ![Probe] = restores[Probe]],
        gen |-> [pc |-> "running", i |-> 1, restores |-> restores,
                 old_selected |-> {o \in Objects : sel[o]},
                 old_active |-> act]]

\* The finally clause of fn() followed by the exit of no_interfere_ctx
LeaveFn(gen, hr, act) ==
    LET ctx == no_interfere_ctx(gen.old_selected, gen.old_active, act)
    IN [hr |-> RunRestores(hr, gen.restores),
        select |-> ctx.select,
        active |-> ctx.active,
        gen |-> [gen EXCEPT !.pc = "done"]]

\* next(self.next_chunk): the generator runs from where it is suspended to
\* its next yield, to its end (StopIteration) or to an exception.
\* Between two yields it sets the frame and calls render_cubemap once.
\* temp_camera adds a camera, which becomes the only selected object and
\* the active one, and unlinks it from the scene afterwards.
Resume(gen, hr, sel, act, cur, files, v, fault) ==
    LET e == IF gen.pc = "created" THEN EnterFn(hr, sel, act)
             ELSE [hr |-> hr, gen |-> gen]
        more == e.gen.i <= Len(all_frames)
        frame == all_frames[e.gen.i]
        r == render_cubemap(files, frame, v, fault)
        leave == LeaveFn(e.gen, e.hr, IF more THEN NoObject ELSE act)
    IN IF more /\ ~r.raised
       THEN [outcome |-> "yield",
             gen |-> [e.gen EXCEPT !.pc = "suspended", !.i = @ + 1],
             hr |-> e.hr,
             select |-> [o \in Objects |-> FALSE],
             active |-> NoObject,
             frame_current |-> frame,
             files |-> r.files, bytes |-> r.bytes, events |-> r.events,
             updates |-> r.updates]
       ELSE [outcome |-> IF more THEN "raise" ELSE "stop",
             gen |-> leave.gen,
             hr |-> leave.hr,
             select |-> leave.select,
             active |-> leave.active,
             frame_current |-> IF more THEN frame ELSE cur,
             files |-> IF more THEN r.files ELSE files,
             bytes |-> IF more THEN r.bytes ELSE <<>>,
             events |-> IF more THEN r.events ELSE <<>>,
             updates |-> IF more THEN r.updates ELSE 0]

\* ------------------------------------------------------------------------
\* BakeCubemapOperator.modal and cancel
\* ------------------------------------------------------------------------
Running == ret \in {"RUNNING_MODAL", "PASS_THROUGH"}

\* Mutant: modal catches every exception of the step
ModalReturnSwallow(outcome) ==
    CASE outcome = "yield" -> "PASS_THROUGH"
      [] outcome = "stop"  -> "FINISHED"
      [] outcome = "raise" -> "FINISHED"

\* What modal hands to the host after next(self.next_chunk): only
\* StopIteration is caught; any other exception leaves modal
ModalReturn(outcome) ==
    CASE outcome = "yield" -> "PASS_THROUGH"
      [] outcome = "stop"  -> "FINISHED"
      [] outcome = "raise" -> "RAISED"

\* event.type == "TIMER".  out_handle is a local of execute that only the
\* frame of the generator still refers to: when fn() runs to its end
\* (StopIteration) the frame is released and the file is closed within this
\* call.  After an exception the traceback keeps the frame, and the file,
\* until the host has dropped it.
ModalTimer ==
    /\ Running
    /\ timer
    /\ \E fault \in Faults :
         /\ next_chunk.pc = "suspended" /\ next_chunk.i > Len(all_frames)
               => fault = NoFault
         /\ LET r == Resume(next_chunk, hide_render, select, active,
                            frame_current, tmpfiles, scene_content, fault)
            IN /\ next_chunk' = r.gen
               /\ hide_render' = r.hr
               /\ select' = r.select
               /\ active' = r.active
               /\ frame_current' = r.frame_current
               /\ tmpfiles' = r.files
               /\ out_bytes' = out_bytes \o r.bytes
               /\ log' = log \o r.events
               /\ awesome' = awesome + r.updates
               /\ ret' = ModalReturn(r.outcome)
               /\ failure' = IF r.outcome = "raise" THEN fault ELSE failure
               /\ out_open' = IF r.outcome = "stop" THEN FALSE ELSE out_open
    /\ ticks' = ticks + 1
    /\ UNCHANGED <<frame_start, frame_end, fps, scene_content, cubeVars,
                   all_frames, timer, out_exists, pre, nbrVars, smpVars,
                   bakeVars>>

\* cancel(ctx): wm.event_timer_remove(self._timer)
cancel == timer' = FALSE

\* event.type in {"ESC", "RIGHTMOUSE"}
ModalCancel ==
    /\ Running
    /\ \E event \in {"ESC", "RIGHTMOUSE"} :
         /\ cancel
         /\ ret' = "CANCELLED"
    /\ UNCHANGED <<sceneVars, cubeVars, all_frames, next_chunk, awesome,
                   fileVars, histVars, nbrVars, smpVars,
                   bakeVars>>

\* any other event: modal returns PASS_THROUGH
ModalOther ==
    /\ Running
    /\ \E event \in {"MOUSEMOVE"} : ret' = "PASS_THROUGH"
    /\ UNCHANGED <<sceneVars, cubeVars, all_frames, next_chunk, awesome,
                   timer, fileVars, histVars, nbrVars, smpVars,
                   bakeVars>>

\* After the operator has ended the host drops the operator instance; when
\* the Python runtime reclaims it, a generator suspended at its yield is
\* closed (GeneratorExit runs the finally clause of fn and the exit of
\* no_interfere_ctx) and out_handle is closed.  Nothing in the source
\* decides when this happens.
Reclaim ==
    /\ ret \in {"FINISHED", "CANCELLED", "RAISED"}
    /\ out_open
    /\ out_open' = FALSE
    /\ IF next_chunk.pc = "suspended"
       THEN LET l == LeaveFn(next_chunk, hide_render, active)
            IN /\ next_chunk' = l.gen
               /\ hide_render' = l.hr
               /\ select' = l.select
               /\ active' = l.active
       ELSE /\ next_chunk' = [next_chunk EXCEPT !.pc = "done"]
            /\ UNCHANGED <<hide_render, select, active>>
    /\ UNCHANGED <<frame_current, frame_start, frame_end, fps, scene_content,
                   cubeVars, all_frames, awesome, timer, ret, out_exists,
                   out_bytes, tmpfiles, histVars, nbrVars, smpVars,
                   bakeVars>>

\* The state of the capture job, read off what the operator returned
JobState ==
    CASE ret = "NONE" -> "Pending"
      [] ret \in {"RUNNING_MODAL", "PASS_THROUGH"} -> "Running"
      [] ret = "FINISHED" -> "Completed"
      [] ret = "CANCELLED" -> "Cancelled"
      [] ret = "RAISED" -> "Failed"

\* ------------------------------------------------------------------------
\* The setters of cube.start_frame and cube.end_frame
\* ------------------------------------------------------------------------
\* validate_min_frame: max(value, scene.frame_start)
validate_min_frame(value) == IF value > frame_start THEN value
                             ELSE frame_start

\* validate_max_frame: min(value, scene.frame_end)
validate_max_frame(value) == IF value < frame_end THEN value ELSE frame_end

\* The values assigned: one below and one inside the scene's range for the
\* start frame, one inside and one above it for the end frame
StartValues == {0, 2}
EndValues == {2, JobMaxFrame + 1}

\* cube.start_frame = value
SetStartFrame ==
    /\ \E value \in StartValues : start_frame' = validate_min_frame(value)
    /\ UNCHANGED <<sceneVars, sky_only, single_frame, whole_range, end_frame,
                   target_fps, opVars, fileVars, histVars, nbrVars, smpVars,
                   bakeVars>>

\* cube.end_frame = value
SetEndFrame ==
    /\ \E value \in EndValues : end_frame' = validate_max_frame(value)
    /\ UNCHANGED <<sceneVars, sky_only, single_frame, whole_range,
                   start_frame, target_fps, opVars, fileVars, histVars,
                   nbrVars, smpVars, bakeVars>>

Next ==
    \/ Execute \/ ModalTimer \/ ModalCancel \/ ModalOther \/ Reclaim
    \/ SetStartFrame \/ SetEndFrame
Spec == Init /\ [][Next]_vars

NextFrames == Execute
SpecFrames == InitFrames /\ [][NextFrames]_vars

\* ------------------------------------------------------------------------
\* get_all_lightprobe_data: the neighbors of a simplex list
\* ------------------------------------------------------------------------
InitNeighbors ==
    /\ hide_render = [o \in Objects |-> FALSE]
    /\ select = [o \in Objects |-> o = Probe]
    /\ active = Probe
    /\ frame_start = 1
    /\ frame_end = 1
    /\ frame_current = 1
    /\ fps = 24
    /\ scene_content = 0
    /\ sky_only = FALSE
    /\ single_frame = FALSE
    /\ whole_range = FALSE
    /\ start_frame = 1
    /\ end_frame = 1
    /\ target_fps = 24
    /\ InitIdle
    /\ simplices \in SimplexLists
    /\ neighbors = <<>>
    /\ InitNoSampler
    /\ InitNoBake

BuildNeighbors ==
    /\ neighbors = <<>>
    /\ neighbors' = Neighbors(simplices)
    /\ UNCHANGED <<jobVars, simplices, smpVars, bakeVars>>

NextNeighbors == BuildNeighbors
SpecNeighbors == InitNeighbors /\ [][NextNeighbors]_vars

\* ------------------------------------------------------------------------
\* Texture sampler: sample_image and bilinear_interpolate
\* ------------------------------------------------------------------------
\* A UV coordinate <<nx, ny>> stands for (nx / (UvUnit * width),
\* ny / (UvUnit * height)): UvUnit steps per pixel, so that pixel centers
\* (odd multiples of UvUnit / 2) and pixel edges are hit exactly.  Sizes are
\* powers of two and UvUnit is a power of two, so the float arithmetic of
\* the source is exact on these inputs.
UvUnit == 2 * Pow2(UvBits)
UvHalf == Pow2(UvBits)

\* math.ceil(a / b) for integers a and b > 0
CeilDiv(a, b) == -((-a) \div b)

\* seq[k] of Python for a tuple: k counts from 0, a negative k counts from
\* the end, anything else is an IndexError
PyIndexOk(seq, k) == -Len(seq) <= k /\ k < Len(seq)
PyIndex(seq, k) == IF k >= 0 THEN seq[k + 1] ELSE seq[Len(seq) + k + 1]

\* Mutant: x and y are exchanged in the pixel offset
sample_imageTransposed(channels, width, height, pixel_data, loc) ==
    LET pix_loc == (loc[1] * width * channels) + loc[2] * channels
        ok == \A c \in 0..2 : PyIndexOk(pixel_data, pix_loc + c)
    IN [ok |-> ok,
        rgb |-> IF ok THEN [c \in 1..3 |-> PyIndex(pixel_data,
                                                   pix_loc + c - 1)]
                ELSE <<0, 0, 0>>]

\* sample_image(channels, width, height, pixel_data, loc), loc = <<x, y>>
sample_image(channels, width, height, pixel_data, loc) ==
    LET pix_loc == (loc[2] * width * channels) + loc[1] * channels
        ok == \A c \in 0..2 : PyIndexOk(pixel_data, pix_loc + c)
    IN [ok |-> ok,
        rgb |-> IF ok THEN [c \in 1..3 |-> PyIndex(pixel_data,
                                                   pix_loc + c - 1)]
                ELSE <<0, 0, 0>>]

\* a.lerp(b, f / UvUnit), times UvUnit
Lerp(a, b, f) == [c \in 1..3 |-> (UvUnit - f) * a[c] + f * b[c]]

\* bilinear_interpolate(image, uv).  With u = nx / (UvUnit * width):
\*   width * (u - half_px_x) - 1 = (nx - 3 * UvHalf) / UvUnit
\*   width * (u + half_px_x) - 1 = (nx - UvHalf) / UvUnit
\*   lerp_x = (nx - UvUnit * left_coord - UvHalf) / UvUnit
\* and the same for y.  The color is returned as numerators over
\* UvUnit * UvUnit; raised is the IndexError of sample_image.
bilinear_interpolate(img, uvc) ==
    LET width == img.width
        height == img.height
        left0 == CeilDiv(uvc[1] - 3 * UvHalf, UvUnit)
        right0 == CeilDiv(uvc[1] - UvHalf, UvUnit)
        bottom0 == CeilDiv(uvc[2] - 3 * UvHalf, UvUnit)
        top0 == CeilDiv(uvc[2] - UvHalf, UvUnit)
        lerp_x == uvc[1] - UvUnit * left0 - UvHalf
        lerp_y == uvc[2] - UvUnit * bottom0 - UvHalf
        right_coord == IF right0 + 1 > width THEN left0 ELSE right0
        left_coord == IF left0 < 0 THEN right_coord ELSE left0
        top_coord == IF top0 + 1 > height THEN bottom0 ELSE top0
        bottom_coord == IF bottom0 < 0 THEN top_coord ELSE bottom0
        ll_uv == <<left_coord, bottom_coord>>
        lr_uv == <<right_coord, bottom_coord>>
        ur_uv == <<right_coord, top_coord>>
        ul_uv == <<left_coord, top_coord>>
        lower_left == sample_image(img.channels, width, height, img.pixels,
                                   ll_uv)
        lower_right == sample_image(img.channels, width, height, img.pixels,
                                    lr_uv)
        upper_right == sample_image(img.channels, width, height, img.pixels,
                                    ur_uv)
        upper_left == sample_image(img.channels, width, height, img.pixels,
                                   ul_uv)
        top == Lerp(upper_left.rgb, upper_right.rgb, lerp_x)
        bottom == Lerp(lower_left.rgb, lower_right.rgb, lerp_x)
        color == [c \in 1..3 |->
                     (UvUnit - lerp_y) * bottom[c] + lerp_y * top[c]]
    IN [done |-> TRUE,
        raised |-> ~(lower_left.ok /\ lower_right.ok /\ upper_right.ok
                     /\ upper_left.ok),
        coords |-> <<ll_uv, lr_uv, ur_uv, ul_uv>>,
        color |-> color]

\* The lightmaps: every power-of-two width and height of the bounds, three
\* or four channels, every float of pixel_data distinct
Sizes == {Pow2(e) : e \in 0..SizeBits}
Images ==
    {[width |-> w, height |-> h, channels |-> ch,
      pixels |-> [k \in 1..(w * h * ch) |-> 3 * k + ch]] :
        w \in Sizes, h \in Sizes, ch \in {3, 4}}

\* UV coordinates from two pixels below 0 to two pixels above 1
InitSampler ==
    /\ hide_render = [o \in Objects |-> FALSE]
    /\ select = [o \in Objects |-> o = Probe]
    /\ active = Probe
    /\ frame_start = 1
    /\ frame_end = 1
    /\ frame_current = 1
    /\ fps = 24
    /\ scene_content = 0
    /\ sky_only = FALSE
    /\ single_frame = FALSE
    /\ whole_range = FALSE
    /\ start_frame = 1
    /\ end_frame = 1
    /\ target_fps = 24
    /\ InitIdle
    /\ InitNoNeighbors
    /\ InitNoBake
    /\ image \in Images
    /\ uv \in ((-2 * UvUnit)..(UvUnit * image.width + 2 * UvUnit))
              \X ((-2 * UvUnit)..(UvUnit * image.height + 2 * UvUnit))
    /\ sampled = NoSample

Sample ==
    /\ ~sampled.done
    /\ sampled' = bilinear_interpolate(image, uv)
    /\ UNCHANGED <<jobVars, nbrVars, image, uv, bakeVars>>

NextSampler == Sample
SpecSampler == InitSampler /\ [][NextSampler]_vars

\* ------------------------------------------------------------------------
\* Radiance projector: BakeOperator and the icosphere sampling
\* ------------------------------------------------------------------------
\* The keys of the spherical_harmonics table, <<l, m>>
spherical_harmonics ==
    <<<<0, 0>>, <<1, -1>>, <<1, 0>>, <<1, 1>>,
      <<2, -2>>, <<2, -1>>, <<2, 0>>, <<2, 1>>, <<2, 2>>>>

\* mesh.tessfaces, in iteration order
Faces == 1..NumFaces
None == 0

\* A ray is the sampled direction <<y, x>> (theta = pi * y / theta_res,
\* phi = 2 * pi * x / phi_res) and how many times FAILSAFE_OFFSET was added
\* to each of its three axes
NoOffset == <<0, 0, 0>>
angle_to_ray(theta, phi) == [dir |-> <<theta, phi>>, off |-> NoOffset]

\* ray.x += FAILSAFE_OFFSET; ray.y += FAILSAFE_OFFSET; ray.z += ...
OffsetRay(ray) ==
    [ray EXCEPT !.off = <<ray.off[1] + 1, ray.off[2] + 1, ray.off[3] + 1>>]

\* The geometry is an input: tbl[dir].orig are the faces whose triangle
\* accepts the ray of direction dir, tbl[dir].off those accepting that ray
\* offset once on all three axes, and tbl[dir].uv is the lightmap
\* coordinate of the point where the accepted ray meets its face
triangle_intersection(tbl, face, ray) ==
    face \in (IF ray.off = NoOffset THEN tbl[ray.dir].orig
              ELSE IF ray.off = <<1, 1, 1>> THEN tbl[ray.dir].off
              ELSE {})

\* find_intersecting_face(ob, ray): the first face of the iteration that
\* accepts the ray, None when no face does
RECURSIVE FindFaceFrom(_, _, _)
FindFaceFrom(tbl, ray, f) ==
    IF f > NumFaces THEN None
    ELSE IF triangle_intersection(tbl, f, ray) THEN f
    ELSE FindFaceFrom(tbl, ray, f + 1)

find_intersecting_face(tbl, ray) == FindFaceFrom(tbl, ray, 1)

\* sample_lightmap(ob, lightmap, face, loc): location_uv, the UV
\* coordinates of the face weighted by the point of intersection, is read
\* off the table; the lightmap is sampled there
sample_lightmap(tbl, lightmap, face, ray) ==
    bilinear_interpolate(lightmap, tbl[ray.dir].uv)

\* Mutant: a second failure is not an error
sample_icosphere_colorNoAssert(tbl, lightmap, theta, phi) ==
    LET ray == angle_to_ray(theta, phi)
        face == find_intersecting_face(tbl, ray)
        ray2 == OffsetRay(ray)
        face2 == find_intersecting_face(tbl, ray2)
        hit == IF face # None THEN [ray |-> ray, face |-> face]
               ELSE [ray |-> ray2, face |-> face2]
        color == sample_lightmap(tbl, lightmap, hit.face, hit.ray)
    IN [scans |-> IF face # None
                  THEN <<[ray |-> ray, face |-> face]>>
                  ELSE <<[ray |-> ray, face |-> face],
                         [ray |-> ray2, face |-> face2]>>,
        raised |-> hit.face # None /\ color.raised,
        face |-> hit.face,
        color |-> color.color]

\* sample_icosphere_color(ob, lightmap, theta, phi): the scans it makes,
\* whether it raised (the assert after the second scan, or the IndexError
\* of sample_image under sample_lightmap), the face it sampled and the
\* color it returns
sample_icosphere_color(tbl, lightmap, theta, phi) ==
    LET ray == angle_to_ray(theta, phi)
        face == find_intersecting_face(tbl, ray)
        ray2 == OffsetRay(ray)
        face2 == find_intersecting_face(tbl, ray2)
        hit == IF face # None THEN [ray |-> ray, face |-> face]
               ELSE [ray |-> ray2, face |-> face2]
        color == sample_lightmap(tbl, lightmap, hit.face, hit.ray)
    IN [scans |-> IF face # None
                  THEN <<[ray |-> ray, face |-> face]>>
                  ELSE <<[ray |-> ray, face |-> face],
                         [ray |-> ray2, face |-> face2]>>,
        raised |-> hit.face = None \/ color.raised,
        face |-> hit.face,
        color |-> color.color]

\* The directions in the order of the two loops of get_coefficients
Directions(tres, pres) ==
    [k \in 1..(tres * pres) |-> <<(k - 1) \div pres, (k - 1) % pres>>]

\* Body(v) with v evaluated once
Bind(v, Body(_)) == CHOOSE r \in {Body(x) : x \in {v}} : TRUE

\* One pass of the loops of get_coefficients: the scans are collected, and
\* the term of the sum is kept unless the sampling raised
AddSample(acc, dir, c) ==
    [scans |-> acc.scans \o c.scans,
     raised |-> c.raised,
     c |-> IF c.raised THEN acc.c ELSE Append(acc.c, <<dir, c.color>>)]

\* get_coefficients(ob, lightmap, l, m, theta_res, phi_res): the sum is
\* kept as the sequence of its terms; an exception ends the loops
RECURSIVE GetCoefficientsFrom(_, _, _, _, _)
GetCoefficientsFrom(tbl, lightmap, dirs, k, acc) ==
    IF k > Len(dirs) THEN acc
    ELSE Bind(AddSample(acc, dirs[k],
                        sample_icosphere_color(tbl, lightmap, dirs[k][1],
                                               dirs[k][2])),
              LAMBDA acc2 :
                  IF acc2.raised THEN acc2
                  ELSE GetCoefficientsFrom(tbl, lightmap, dirs, k + 1, acc2))

\* the scans of one harmonic, tagged with its key
TagScans(r, lm) ==
    [r EXCEPT !.scans = [p \in 1..Len(r.scans) |->
                            [lm |-> lm, ray |-> r.scans[p].ray,
                             face |-> r.scans[p].face]]]

get_coefficients(tbl, lightmap, lm, tres, pres) ==
    Bind(GetCoefficientsFrom(tbl, lightmap, Directions(tres, pres), 1,
                             [scans |-> <<>>, raised |-> FALSE, c |-> <<>>]),
         LAMBDA r : TagScans(r, lm))

\* One pass of the loop of get_all_coefficients
AddHarmonic(acc, lm, color) ==
    [scans |-> acc.scans \o color.scans,
     raised |-> color.raised,
     mapping |-> IF color.raised THEN acc.mapping
                 ELSE Append(acc.mapping, <<lm, color.c>>)]

\* get_all_coefficients(ob, lightmap, theta_res, phi_res)
RECURSIVE GetAllCoefficientsFrom(_, _, _, _, _, _)
GetAllCoefficientsFrom(tbl, lightmap, tres, pres, h, acc) ==
    IF h > Len(spherical_harmonics) THEN acc
    ELSE Bind(get_coefficients(tbl, lightmap, spherical_harmonics[h], tres,
                               pres),
              LAMBDA color :
                  Bind(AddHarmonic(acc, spherical_harmonics[h], color),
                       LAMBDA acc2 :
                           IF acc2.raised THEN acc2
                           ELSE GetAllCoefficientsFrom(tbl, lightmap, tres,
                                                       pres, h + 1, acc2)))

get_all_coefficients(tbl, lightmap, tres, pres) ==
    GetAllCoefficientsFrom(tbl, lightmap, tres, pres, 1,
                           [scans |-> <<>>, raised |-> FALSE,
                            mapping |-> <<>>])

\* get_lightprobe_coefficients(probe, theta_res, phi_res): the bake into
\* the lightmap happens in the renderer (lightmap is the image it left),
\* then the coefficients are read
get_lightprobe_coefficients(tbl, lightmap, tres, pres) ==
    get_all_coefficients(tbl, lightmap, tres, pres)

\* set_coeff_prop(ob, coeffs): the value of ob["lightprobe_coeffs"]
set_coeff_prop(coeffs) == [kind |-> "baked", coeffs |-> coeffs]

\* The inputs of a bake: the resolutions, what the probe held before, the
\* lightmap, and for every direction which faces accept the ray and the
\* offset ray (no face, the last face only, or every face; the offset ray
\* is only ever cast when no face accepts the ray) and where the lightmap
\* is sampled: at the center of its first pixel, or past its last row and
\* column.  No lightmap is sampled in a direction that no ray hits.
Resolutions ==
    {rr \in (1..NumSamples) \X (1..NumSamples) : rr[1] * rr[2] <= NumSamples}
AcceptSets == {{}, {NumFaces}, Faces}
Lightmaps ==
    {img \in Images : /\ img.width = Pow2(SizeBits)
                      /\ img.height = Pow2(SizeBits)
                      /\ img.channels = 4}
InsideUV == <<UvHalf, UvHalf>>
OutsideUV(img) ==
    <<UvUnit * img.width + 3 * UvHalf, UvUnit * img.height + 3 * UvHalf>>
Acceptance(img) ==
    {[orig |-> o, off |-> f, uv |-> c] :
        o \in AcceptSets, f \in AcceptSets, c \in {InsideUV, OutsideUV(img)}}
Acceptances(img) ==
    {a \in Acceptance(img) :
        /\ a.orig # {} => a.off = {}
        /\ a.orig = {} /\ a.off = {} => a.uv = InsideUV}

InitBake ==
    /\ hide_render = [o \in Objects |-> FALSE]
    /\ select = [o \in Objects |-> o = Probe]
    /\ active = Probe
    /\ frame_start = 1
    /\ frame_end = 1
    /\ frame_current = 1
    /\ fps = 24
    /\ scene_content = 0
    /\ sky_only = FALSE
    /\ single_frame = FALSE
    /\ whole_range = FALSE
    /\ start_frame = 1
    /\ end_frame = 1
    /\ target_fps = 24
    /\ InitIdle
    /\ InitNoNeighbors
    /\ image \in Lightmaps
    /\ uv = <<0, 0>>
    /\ sampled = NoSample
    /\ \E rr \in Resolutions :
          /\ theta_res = rr[1]
          /\ phi_res = rr[2]
          /\ accepts \in [{<<y, x>> : y \in 0..(rr[1] - 1),
                                      x \in 0..(rr[2] - 1)}
                             -> Acceptances(image)]
    /\ lightprobe_coeffs \in {[kind |-> "unset"], [kind |-> "old"]}
    /\ bake_ret = "NONE"
    /\ scans = <<>>

\* BakeOperator.execute
BakeExecute ==
    /\ bake_ret = "NONE"
    /\ LET coeffs == get_lightprobe_coefficients(accepts, image, theta_res,
                                                 phi_res)
       IN /\ scans' = coeffs.scans
          /\ IF coeffs.raised
             THEN /\ bake_ret' = "RAISED"
                  /\ UNCHANGED lightprobe_coeffs
             ELSE /\ lightprobe_coeffs' = set_coeff_prop(coeffs.mapping)
                  /\ bake_ret' = "FINISHED"
    /\ UNCHANGED <<jobVars, nbrVars, smpVars, accepts, theta_res, phi_res>>

NextBake == BakeExecute
SpecBake == InitBake /\ [][NextBake]_vars

\* ------------------------------------------------------------------------
\* Reading the cubemap stream back
\* ------------------------------------------------------------------------
DecLE32(b, p) ==
    b[p] + 256 * b[p + 1] + 65536 * b[p + 2] + 16777216 * b[p + 3]

\* The length-prefixed blocks of b from position p on; torn when b ends
\* inside a length prefix or inside a payload
RECURSIVE ParseBlocks(_, _)
ParseBlocks(b, p) ==
    IF p > Len(b) THEN [blocks |-> <<>>, torn |-> FALSE]
    ELSE IF p + 3 > Len(b) THEN [blocks |-> <<>>, torn |-> TRUE]
    ELSE LET n == DecLE32(b, p)
         IN IF p + 3 + n > Len(b) THEN [blocks |-> <<>>, torn |-> TRUE]
            ELSE LET rest == ParseBlocks(b, p + 4 + n)
                 IN [blocks |-> <<SubSeq(b, p + 4, p + 3 + n)>> \o rest.blocks,
                     torn |-> rest.torn]

Invocations(l) == SelectSeq(l, LAMBDA e : e[1] \in {"render", "render_failed"})
Appends(l) == SelectSeq(l, LAMBDA e : e[1] = "append")

\* ------------------------------------------------------------------------
\* Properties
\* ------------------------------------------------------------------------
\* C1: when the job has run to completion (modal returned FINISHED), the
\* stream is the header (float32 scene fps, float32 gamma 1.0, uint32
\* frameCount = length of the frame list) followed by exactly 6 x frameCount
\* complete blocks; block k holds the image rendered for frame
\* all_frames[(k-1) div 6 + 1] in direction (k-1) mod 6 + 1 of posx, negx,
\* posy, negy, posz, negz, and its prefix is the image's length.
StreamOnCompletion ==
    ret = "FINISHED" =>
        LET n == Len(all_frames)
            p == ParseBlocks(out_bytes, HeaderLen + 1)
            rs == Invocations(log)
        IN /\ Len(out_bytes) >= HeaderLen
           /\ DecLE32(out_bytes, 1) = F32Bits(fps)
           /\ DecLE32(out_bytes, 5) = 1065353216
           /\ DecLE32(out_bytes, 9) = n
           /\ ~p.torn
           /\ Len(p.blocks) = 6 * n
           /\ Len(rs) = 6 * n
           /\ \A k \in 1..(6 * n) :
                /\ rs[k][1] = "render"
                /\ rs[k][2] = all_frames[((k - 1) \div 6) + 1]
                /\ CUBEMAP_DIRECTION_LOOKUP[rs[k][3]] =
                     <<"posx", "negx", "posy", "negy", "posz", "negz">>
                         [((k - 1) % 6) + 1]
                /\ p.blocks[k] = rs[k][4]

StreamOnCompletionWitness ==
    /\ ret = "FINISHED"
    /\ Len(all_frames) >= 3
    /\ Len(ParseBlocks(out_bytes, HeaderLen + 1).blocks) >= 18

\* C2 as stated: every TIMER tick makes exactly one renderer invocation and
\* appends exactly one block.
OneChunkPerTick ==
    [][ticks' = ticks + 1 =>
          /\ Len(Invocations(log')) = Len(Invocations(log)) + 1
          /\ Len(Appends(log')) = Len(Appends(log)) + 1]_vars

\* C2 amended: every TIMER tick resumes the generator once and processes at
\* most one frame.  A tick that returns PASS_THROUGH processed exactly the
\* next frame of the list: six renderer invocations, one per direction in
\* order, and then the append of the six blocks.  The tick after the last
\* frame renders and appends nothing and returns FINISHED.  A tick whose
\* step raises started at most six renderer invocations, all for the next
\* frame.
OneFramePerTick ==
    [][ticks' = ticks + 1 =>
          LET new == SubSeq(log', Len(log) + 1, Len(log'))
          IN /\ ret' \in {"PASS_THROUGH", "FINISHED", "RAISED"}
             /\ ret' = "PASS_THROUGH" =>
                  /\ ticks' <= Len(all_frames)
                  /\ Len(new) = 12
                  /\ \A d \in 1..6 :
                       /\ new[d] = <<"render", all_frames[ticks'], d,
                                     new[d][4]>>
                       /\ new[6 + d] = <<"append", all_frames[ticks'], d,
                                         new[d][4]>>
                  /\ Len(ParseBlocks(out_bytes', HeaderLen + 1).blocks) =
                       Len(ParseBlocks(out_bytes, HeaderLen + 1).blocks) + 6
             /\ ret' = "FINISHED" =>
                  /\ ticks' = Len(all_frames) + 1
                  /\ new = <<>>
                  /\ out_bytes' = out_bytes
             /\ ret' = "RAISED" =>
                  /\ Len(Invocations(new)) \in 1..6
                  /\ \A k \in 1..Len(new) : new[k][2] = all_frames[ticks']
    ]_vars

OneFramePerTickWitness ==
    /\ ticks = 2
    /\ ret = "PASS_THROUGH"
    /\ Len(Invocations(log)) = 12
    /\ Len(Appends(log)) = 12

\* C3: when the job is cancelled after N blocks were appended, the stream
\* is the header followed by exactly those N complete blocks, none torn,
\* and nothing is written to it afterwards.
CancelBetweenChunks ==
    [][/\ ret' = "CANCELLED" =>
            LET p == ParseBlocks(out_bytes', HeaderLen + 1)
                done == Appends(log')
            IN /\ Len(out_bytes') >= HeaderLen
               /\ ~p.torn
               /\ Len(p.blocks) = Len(done)
               /\ \A k \in 1..Len(done) : p.blocks[k] = done[k][4]
       /\ ret = "CANCELLED" => out_bytes' = out_bytes /\ log' = log
    ]_vars

CancelBetweenChunksWitness ==
    /\ ret = "CANCELLED"
    /\ Len(Appends(log)) = 12
    /\ next_chunk.pc = "done"
    /\ Len(all_frames) > 2

\* C4: after the job has ended by completion or by a failure, every
\* object's hide_render, the probe's included, has its value from before
\* the job.
VisibilityRestoredAtEnd ==
    ret \in {"FINISHED", "RAISED"} => hide_render = pre.hide_render

\* C5: once the job is in the Cancelled state, the visibility and selection
\* state it overrode has its values from before the job.
CancelRestoresScene ==
    ret = "CANCELLED" =>
        /\ hide_render = pre.hide_render
        /\ select = pre.select
        /\ active = pre.active

\* C6: a failure of the renderer, or of reading or appending its image,
\* during a tick leaves modal as an exception: the operator returns neither
\* FINISHED nor PASS_THROUGH and the job is Failed.
FailureRaised ==
    failure # NoFault => ret = "RAISED" /\ JobState = "Failed"

FailureRaisedWitness ==
    /\ failure.kind = "render"
    /\ ret = "RAISED"
    /\ ticks = 2

\* C7: when the job has ended by cancellation or failure, no output file
\* remains whose header declares more frames than it holds blocks for.
PartialOutputDiscarded ==
    ret \in {"CANCELLED", "RAISED"} =>
        ~ /\ out_exists
          /\ Len(out_bytes) >= HeaderLen
          /\ Len(ParseBlocks(out_bytes, HeaderLen + 1).blocks) <
                 6 * DecLE32(out_bytes, 9)

\* C8: when the target rate equals the native rate and start <= end, the
\* selected frame list is start, start+1, ..., end.
FramesAtNativeRate ==
    (ret = "RUNNING_MODAL" /\ fps = target_fps /\ StartOf <= EndOf) =>
        all_frames = [k \in 1..(EndOf - StartOf + 1) |-> StartOf + k - 1]

FramesAtNativeRateWitness ==
    /\ ret = "RUNNING_MODAL"
    /\ fps = 24 /\ target_fps = 24
    /\ StartOf = 1 /\ EndOf = 10
    /\ all_frames = <<1, 2, 3, 4, 5, 6, 7, 8, 9, 10>>

\* C9: for start <= end and any positive rates, the selected frame list is
\* strictly increasing (no two consecutive entries are equal).
FramesStrictlyIncreasing ==
    (ret = "RUNNING_MODAL" /\ StartOf <= EndOf) =>
        \A k \in 1..(Len(all_frames) - 1) : all_frames[k] < all_frames[k + 1]

\* C10: when every face (3 vertices of a simplex) lies in at most two
\* simplices of the list, the neighbor graph is symmetric: if neighbors[S][i]
\* is N, not null, then neighbors[N] holds S at the position of the vertex
\* of N that is not in the shared face.
FaceInAtMostTwo ==
    \A s \in 1..Len(simplices) : \A i \in 1..4 :
        Cardinality({t \in 1..Len(simplices) :
            ToMatch(simplices[s], i) \subseteq SetOf(simplices[t])}) <= 2

NeighborsSymmetric ==
    (neighbors # <<>> /\ FaceInAtMostTwo) =>
        \A s \in 1..Len(simplices) : \A i \in 1..4 :
            LET n == neighbors[s][i]
            IN n # Null =>
                 /\ \E j \in 1..4 :
                        simplices[n + 1][j] \notin ToMatch(simplices[s], i)
                 /\ \A j \in 1..4 :
                        simplices[n + 1][j] \notin ToMatch(simplices[s], i)
                            => neighbors[n + 1][j] = s - 1

NeighborsSymmetricWitness ==
    /\ neighbors # <<>>
    /\ FaceInAtMostTwo
    /\ Len(simplices) = 3
    /\ \E s \in 1..3 : \E i \in 1..4 : neighbors[s][i] = 2
    /\ \E s \in 1..3 : \E i \in 1..4 : neighbors[s][i] = Null

\* C13 as stated: invocations and appends are in frame-then-direction
\* order and the renderer invocation of a chunk never starts before the
\* previous chunk's image was appended: the k-th invocation of the job comes
\* after its (k-1)-th append.
ChunkAfterPreviousAppend ==
    failure = NoFault =>
        \A p \in 1..Len(log) :
            log[p][1] = "render" =>
                LET k == Len(Invocations(SubSeq(log, 1, p)))
                IN Len(Appends(SubSeq(log, 1, p))) >= k - 1

\* C13 amended: the history is, frame by frame in list order, the six
\* renderer invocations of the frame in direction order followed by the six
\* appends of the frame in direction order; so invocations are in
\* frame-then-direction order, appends are in frame-then-direction order,
\* and the first invocation of a frame comes after the last append of the
\* frame before it, while the invocations of one frame precede all of its
\* appends.  The blocks of the stream are the appended images in this order.
FrameThenDirectionOrder ==
    /\ \A p \in 1..Len(log) :
         LET g == (p - 1) \div 12
             r == (p - 1) % 12
         IN /\ g + 1 <= Len(all_frames)
            /\ log[p][2] = all_frames[g + 1]
            /\ r < 6 => /\ log[p][1] \in {"render", "render_failed"}
                        /\ log[p][3] = r + 1
            /\ r >= 6 => /\ log[p][1] = "append"
                         /\ log[p][3] = r - 5
                         /\ log[p][4] = log[p - 6][4]
    /\ out_exists /\ failure.kind # "write" =>
         LET p == ParseBlocks(out_bytes, HeaderLen + 1)
             done == Appends(log)
         IN /\ Len(p.blocks) = Len(done)
            /\ \A k \in 1..Len(done) : p.blocks[k] = done[k][4]

FrameThenDirectionOrderWitness ==
    /\ failure = NoFault
    /\ Len(log) = 36
    /\ log[13][1] = "render"
    /\ log[12][1] = "append"
    /\ log[13][2] # log[12][2]

\* C14: neighbors has one 4-element entry per simplex; neighbors[S][i] is
\* the lowest-index simplex other than S whose vertex set contains the three
\* vertices of S other than vertex i, and null exactly when there is none.
FaceOpposite(simp, i) == SetOf(simp) \ {simp[i]}
Sharing(s, i) ==
    {t \in 1..Len(simplices) :
        t # s /\ FaceOpposite(simplices[s], i) \subseteq SetOf(simplices[t])}

NeighborsLowestIndex ==
    neighbors # <<>> =>
        /\ Len(neighbors) = Len(simplices)
        /\ \A s \in 1..Len(simplices) :
             /\ Len(neighbors[s]) = 4
             /\ \A i \in 1..4 :
                  /\ neighbors[s][i] = Null <=> Sharing(s, i) = {}
                  /\ Sharing(s, i) # {} =>
                       /\ neighbors[s][i] + 1 \in Sharing(s, i)
                       /\ \A t \in Sharing(s, i) : neighbors[s][i] + 1 <= t

NeighborsLowestIndexWitness ==
    /\ neighbors # <<>>
    /\ Len(simplices) = 3
    /\ \E i \in 1..4 : Cardinality(Sharing(1, i)) = 2 /\ neighbors[1][i] = 1
    /\ \E i \in 1..4 : neighbors[1][i] = Null
    /\ \E s \in 1..3 : \E i \in 1..4 : Cardinality(Sharing(s, i)) = 1

\* C16: for start <= end, every selected frame lies in [start, end].
FramesWithinRange ==
    (ret = "RUNNING_MODAL" /\ StartOf <= EndOf) =>
        \A k \in 1..Len(all_frames) :
            StartOf <= all_frames[k] /\ all_frames[k] <= EndOf

\* C17: when the job is in a terminal state (FINISHED or CANCELLED), the
\* timer has been removed and the output file handle has been closed.
ResourcesReleased ==
    ret \in {"FINISHED", "CANCELLED"} => ~timer /\ ~out_open

\* C11: sampling at the exact center of pixel (i, j), for every pixel of
\* the image, returns exactly the stored RGB value of that pixel.
StoredPixel(img, i, j) ==
    [c \in 1..3 |-> img.pixels[(j * img.width + i) * img.channels + c]]

PixelCenterExact ==
    sampled.done =>
        \A i \in 0..(image.width - 1) : \A j \in 0..(image.height - 1) :
            uv = <<(2 * i + 1) * UvHalf, (2 * j + 1) * UvHalf>> =>
                /\ ~sampled.raised
                /\ sampled.color =
                     [c \in 1..3 |->
                         UvUnit * UvUnit * StoredPixel(image, i, j)[c]]

PixelCenterExactWitness ==
    /\ sampled.done
    /\ image.width = 4 /\ image.height = 2
    /\ uv = <<(2 * 0 + 1) * UvHalf, (2 * 1 + 1) * UvHalf>>
    /\ sampled.color = [c \in 1..3 |->
                           UvUnit * UvUnit * StoredPixel(image, 0, 1)[c]]
    /\ StoredPixel(image, 0, 1) # StoredPixel(image, 1, 0)

\* C12: for every UV coordinate, inside [0,1], at 0 or 1, below 0 and
\* above 1, the four pixel coordinates handed to sample_image satisfy
\* 0 <= x < width and 0 <= y < height.
SamplerInBounds ==
    sampled.done =>
        \A k \in 1..4 :
            /\ 0 <= sampled.coords[k][1]
            /\ sampled.coords[k][1] < image.width
            /\ 0 <= sampled.coords[k][2]
            /\ sampled.coords[k][2] < image.height

\* C15: every sampled direction gets one scan of the faces; a scan that
\* finds no face is followed by exactly one rescan of the same direction
\* with the ray offset once on all three axes; when the rescan finds no
\* face either, the bake raises, nothing is scanned afterwards and the
\* coefficients stored on the probe are what they were before the bake.
\* A bake without such a second miss either finishes after one first scan
\* per harmonic and direction, or raises, with the stored coefficients
\* unchanged, at a face whose lightmap coordinate is outside the image.
IsFirstScan(sc) == sc.ray.off = NoOffset
IsRescanOf(sc, first) ==
    /\ sc.ray.off = <<1, 1, 1>>
    /\ sc.ray.dir = first.ray.dir
    /\ sc.lm = first.lm
    /\ IsFirstScan(first)
    /\ first.face = None
FirstScans(log0) == SelectSeq(log0, IsFirstScan)
DoubleFailure(log0) ==
    \E p \in 1..Len(log0) : ~IsFirstScan(log0[p]) /\ log0[p].face = None

\* the scan found a face and reading the lightmap where it was hit raises
SamplingFailed(sc) ==
    /\ sc.face # None
    /\ bilinear_interpolate(image, accepts[sc.ray.dir].uv).raised

BakeStep ==
    bake_ret = "NONE" /\ bake_ret' # "NONE" =>
        /\ \A p \in 1..Len(scans') :
             IF IsFirstScan(scans'[p])
             THEN IF scans'[p].face = None
                  THEN /\ p < Len(scans')
                       /\ IsRescanOf(scans'[p + 1], scans'[p])
                  ELSE p < Len(scans') => IsFirstScan(scans'[p + 1])
             ELSE /\ p > 1
                  /\ IsRescanOf(scans'[p], scans'[p - 1])
                  /\ p < Len(scans') => IsFirstScan(scans'[p + 1])
                  /\ scans'[p].face = None => p = Len(scans')
        /\ \A p, q \in 1..Len(scans') :
             (/\ IsFirstScan(scans'[p]) /\ IsFirstScan(scans'[q])
              /\ scans'[p].lm = scans'[q].lm
              /\ scans'[p].ray.dir = scans'[q].ray.dir) => p = q
        /\ IF DoubleFailure(scans')
           THEN /\ bake_ret' = "RAISED"
                /\ lightprobe_coeffs' = lightprobe_coeffs
           ELSE \/ /\ bake_ret' = "FINISHED"
                   /\ Len(FirstScans(scans')) =
                        Len(spherical_harmonics) * theta_res * phi_res
                \/ /\ bake_ret' = "RAISED"
                   /\ lightprobe_coeffs' = lightprobe_coeffs
                   /\ SamplingFailed(scans'[Len(scans')])

FailsafeRescanOnce == [][BakeStep]_vars

FailsafeRescanOnceWitness ==
    /\ bake_ret = "RAISED"
    /\ lightprobe_coeffs = [kind |-> "old"]
    /\ Len(scans) = 4
    /\ scans[1].face = None /\ scans[2].face # None
    /\ scans[3].face = None /\ scans[4].face = None
    /\ ~IsFirstScan(scans[4])

====
